---- MODULE Spec2Model ----
(***************************************************************************)
(* A model of xdf_extraction.py: the XDFSchematicGenerator class (stream   *)
(* selection, summary table, behavioral table, tree builder, document      *)
(* assembly) and the command-line entry point main().                      *)
(*                                                                         *)
(* Python values are tagged records.  Text is a sequence of one-character  *)
(* strings, so that lower(), substring tests, replace() and path handling  *)
(* are computed and not assumed.  Indices are Python's (0-based).          *)
(***************************************************************************)
EXTENDS Integers, Sequences, FiniteSets, TLC

VARIABLES
    streams,                 \* self.streams
    behavioral_idx,          \* self.behavioral_idx
    behavioral_stream_name,  \* self.behavioral_stream_name
    stream_summary,          \* self.stream_summary
    pc,                      \* "start" | "ready" | "returned" | "exit" | "raised"
    ret,                     \* what the last operation returned (or raised)
    writes                   \* the files the last operation wrote, in order

vars == <<streams, behavioral_idx, behavioral_stream_name, stream_summary,
          pc, ret, writes>>

-----------------------------------------------------------------------------
(* Bounds of the model.                                                    *)

MaxStreams == 2
MaxTreeDepth == 2

-----------------------------------------------------------------------------
(* Python values.                                                          *)

\* None as an index (self.behavioral_idx = None); valid indices are >= 0.
None == -1

PNone == [t |-> "none"]
PStr(s) == [t |-> "str", v |-> s]
PNum(n) == [t |-> "num", v |-> n]
PList(xs) == [t |-> "list", v |-> xs]
PDict(ks, vs) == [t |-> "dict", k |-> ks, v |-> vs]
\* numpy arrays: 1-D (v is the sequence of values) and 2-D (v is the
\* sequence of rows, each of n_cols values).
PArr1(xs) == [t |-> "ndarray", shape |-> <<Len(xs)>>, v |-> xs]
PArr2(rows, n_cols) == [t |-> "ndarray", shape |-> <<Len(rows), n_cols>>, v |-> rows]

EmptyDict == PDict(<<>>, <<>>)

\* bool(x) for the values the code tests for truth.
Truthy(x) ==
    CASE x.t = "none" -> FALSE
      [] x.t = "str" -> Len(x.v) > 0
      [] x.t = "list" -> Len(x.v) > 0
      [] x.t = "dict" -> Len(x.k) > 0
      [] x.t = "num" -> x.v # 0
      [] OTHER -> TRUE

HasKey(d, key) == \E i \in 1..Len(d.k) : d.k[i] = key

\* dict.get(key, default)
DictGet(d, key, default) ==
    IF HasKey(d, key)
    THEN d.v[CHOOSE i \in 1..Len(d.k) : d.k[i] = key]
    ELSE default

\* len(x): defined for text, lists, dicts and arrays; TypeError otherwise.
HasLen(x) == x.t \in {"str", "list", "dict", "ndarray"}
PyLen(x) == IF x.t = "dict" THEN Len(x.k) ELSE Len(x.v)

-----------------------------------------------------------------------------
(* Text.                                                                   *)

UpperChars == <<"A","B","C","D","E","F","G","H","I","J","K","L","M",
                "N","O","P","Q","R","S","T","U","V","W","X","Y","Z">>
LowerChars == <<"a","b","c","d","e","f","g","h","i","j","k","l","m",
                "n","o","p","q","r","s","t","u","v","w","x","y","z">>
DigitChars == <<"0","1","2","3","4","5","6","7","8","9">>

LowerChar(c) ==
    IF \E i \in 1..Len(UpperChars) : UpperChars[i] = c
    THEN LowerChars[CHOOSE i \in 1..Len(UpperChars) : UpperChars[i] = c]
    ELSE c

\* str.lower()
lower(s) == [i \in 1..Len(s) |-> LowerChar(s[i])]

\* sub in s  (substring test)
Contains(sub, s) ==
    \E i \in 0..(Len(s) - Len(sub)) : SubSeq(s, i + 1, i + Len(sub)) = sub

\* str(n) for a small non-negative integer
DigitStr(n) == <<DigitChars[n + 1]>>

IsDigit(c) == \E i \in 1..Len(DigitChars) : DigitChars[i] = c
DigitVal(c) == (CHOOSE i \in 1..Len(DigitChars) : DigitChars[i] = c) - 1

RECURSIVE ParseDigits(_)
ParseDigits(s) ==
    IF s = <<>> THEN 0
    ELSE 10 * ParseDigits(SubSeq(s, 1, Len(s) - 1)) + DigitVal(s[Len(s)])

IsDigits(s) == Len(s) > 0 /\ \A i \in 1..Len(s) : IsDigit(s[i])

-----------------------------------------------------------------------------
(* _find_behavioral_stream                                                 *)

default_names == << <<"s","t","i","m","l","a","b","e","l","s">>,
                    <<"m","a","r","k","e","r","s">>,
                    <<"e","v","e","n","t","s">>,
                    <<"t","r","i","g","g","e","r","s">>,
                    <<"b","e","h","a","v","i","o","r","a","l">> >>

\* info = stream.get('info', {})
\* name = info.get('name', [''])[0] if isinstance(info.get('name'), list)
\*        else info.get('name', '')
\* The result is [raised, name]: info.get raises when info is no mapping,
\* [0] raises IndexError on an empty list.
StreamName(stream) ==
    LET info == DictGet(stream, <<"i","n","f","o">>, EmptyDict)
    IN  IF info.t # "dict" THEN [raised |-> TRUE, name |-> PNone]
        ELSE LET nm == DictGet(info, <<"n","a","m","e">>, PNone)
             IN  IF nm.t = "list"
                 THEN IF Len(nm.v) = 0 THEN [raised |-> TRUE, name |-> PNone]
                      ELSE [raised |-> FALSE, name |-> nm.v[1]]
                 ELSE [raised |-> FALSE,
                       name |-> DictGet(info, <<"n","a","m","e">>, PStr(<<>>))]

\* The test as it would be with the hint compared as typed (no hint.lower()).
NameMatchesCaseSensitive(hint, name_lower) ==
    IF Truthy(hint)
    THEN Contains(hint.v, name_lower)
    ELSE \E j \in 1..Len(default_names) : Contains(default_names[j], name_lower)

\* The test of one stream's lower-cased name against the hint or, with no
\* (truthy) hint, against the default keywords.
NameMatches(hint, name_lower) ==
    IF Truthy(hint)
    THEN Contains(lower(hint.v), name_lower)
    ELSE \E j \in 1..Len(default_names) : Contains(default_names[j], name_lower)

\* The loop of _find_behavioral_stream from position idx (0-based) on.
\* Result: [raised, idx, name]; name.lower() raises when the name is no text.
RECURSIVE FindFrom(_, _, _)
FindFrom(strs, hint, idx) ==
    IF idx >= Len(strs)
    THEN [raised |-> FALSE, idx |-> None, name |-> hint]
    ELSE LET n == StreamName(strs[idx + 1])
         IN  IF n.raised \/ n.name.t # "str"
             THEN [raised |-> TRUE, idx |-> None, name |-> hint]
             ELSE IF NameMatches(hint, lower(n.name.v))
                  THEN [raised |-> FALSE, idx |-> idx, name |-> n.name]
                  ELSE FindFrom(strs, hint, idx + 1)

\* _find_behavioral_stream as a whole.  When the loop ends without a match
\* every name has already been computed without raising, so the warning
\* listing (which computes the names again) cannot raise either.
find_behavioral_stream(strs, hint) == FindFrom(strs, hint, 0)

-----------------------------------------------------------------------------
(* _extract_stream_info                                                    *)

K_info == <<"i","n","f","o">>
K_name == <<"n","a","m","e">>
K_type == <<"t","y","p","e">>
K_channel_count == <<"c","h","a","n","n","e","l","_","c","o","u","n","t">>
K_nominal_srate == <<"n","o","m","i","n","a","l","_","s","r","a","t","e">>
K_time_series == <<"t","i","m","e","_","s","e","r","i","e","s">>
K_time_stamps == <<"t","i","m","e","_","s","t","a","m","p","s">>
K_footer == <<"f","o","o","t","e","r">>

NA == <<"N","/","A">>
Unknown == <<"U","n","k","n","o","w","n">>
Stream_(idx) == <<"S","t","r","e","a","m","_">> \o DigitStr(idx)

\* def get_nested(d, key, default='N/A'):
\*     val = d.get(key, [default])
\*     return val[0] if isinstance(val, list) and len(val) > 0 else val
get_nested(d, key, default) ==
    LET val == DictGet(d, key, PList(<<default>>))
    IN  IF val.t = "list" /\ Len(val.v) > 0 THEN val.v[1] ELSE val

\* int(x): a number, or text made of decimal digits (signs and surrounding
\* blanks do not occur in the inputs); anything else raises (TypeError for
\* None, lists and mappings, ValueError for other text).
IntOk(x) == x.t = "num" \/ (x.t = "str" /\ IsDigits(x.v))
IntOf(x) == IF x.t = "num" THEN x.v ELSE ParseDigits(x.v)

\* float(x): a number, or text of decimal digits with at most one point and
\* at least one digit (signs, exponents and surrounding blanks, which Python
\* accepts too, do not occur in the inputs).  The value keeps the digits
\* after the point.
PointAt(s) == {i \in 1..Len(s) : s[i] = "."}
FloatOk(x) ==
    \/ x.t = "num"
    \/ /\ x.t = "str"
       /\ Cardinality(PointAt(x.v)) <= 1
       /\ \E i \in 1..Len(x.v) : IsDigit(x.v[i])
       /\ \A i \in 1..Len(x.v) : IsDigit(x.v[i]) \/ x.v[i] = "."
FloatOf(x) ==
    IF x.t = "num" THEN [whole |-> x.v, frac |-> <<>>]
    ELSE IF PointAt(x.v) = {} THEN [whole |-> ParseDigits(x.v), frac |-> <<>>]
    ELSE LET p == CHOOSE i \in PointAt(x.v) : TRUE
         IN  [whole |-> ParseDigits(SubSeq(x.v, 1, p - 1)),
              frac |-> SubSeq(x.v, p + 1, Len(x.v))]

\* Element i (1-based here) of a timestamp sequence, as a number.
TsVal(ts, i) == IF ts.t = "ndarray" THEN ts.v[i] ELSE ts.v[i].v

\* Result: [raised, row].  size_mb (sys.getsizeof, display only, never
\* raising) is not part of the row.
NoRow == [index |-> None]
extract_stream_info(stream_idx, stream) ==
    LET info == DictGet(stream, K_info, EmptyDict)
        time_series == DictGet(stream, K_time_series, PArr1(<<>>))
        time_stamps == DictGet(stream, K_time_stamps, PArr1(<<>>))
    IN  IF info.t # "dict" THEN [raised |-> TRUE, row |-> NoRow]
        ELSE
        LET stream_name == get_nested(info, K_name, PStr(Stream_(stream_idx)))
            stream_type == get_nested(info, K_type, PStr(Unknown))
            cc == get_nested(info, K_channel_count, PNum(0))
            sr == get_nested(info, K_nominal_srate, PNum(0))
        IN  IF ~IntOk(cc) \/ ~FloatOk(sr) \/ ~HasLen(time_stamps)
            THEN [raised |-> TRUE, row |-> NoRow]
            ELSE [raised |-> FALSE,
                  row |-> [index |-> stream_idx,
                           name |-> stream_name,
                           type |-> stream_type,
                           channels |-> IntOf(cc),
                           srate_hz |-> FloatOf(sr),
                           samples |-> PyLen(time_stamps),
                           duration_sec |->
                               IF PyLen(time_stamps) > 1
                               THEN TsVal(time_stamps, PyLen(time_stamps))
                                    - TsVal(time_stamps, 1)
                               ELSE 0,
                           time_series_shape |->
                               IF time_series.t = "ndarray"
                               THEN [t |-> "shape", v |-> time_series.shape]
                               ELSE PStr(NA)]]

-----------------------------------------------------------------------------
(* generate_summary_table                                                  *)

\* The second loop as it would be without its test idx != behavioral_idx.
OthersFromAll(n, bidx, idx) == [i \in 1..(n - idx) |-> idx + i - 1]

\* The stream positions in the order the rows are appended: the behavioral
\* stream first when there is one, then every idx != behavioral_idx.
RECURSIVE OthersFrom(_, _, _)
OthersFrom(n, bidx, idx) ==
    IF idx >= n THEN <<>>
    ELSE (IF idx # bidx THEN <<idx>> ELSE <<>>) \o OthersFrom(n, bidx, idx + 1)

SummaryOrder(n, bidx) ==
    (IF bidx # None THEN <<bidx>> ELSE <<>>) \o OthersFrom(n, bidx, 0)

\* Result: [raised, rows]; a row that raises ends the call.
generate_summary_table(strs, bidx) ==
    LET order == SummaryOrder(Len(strs), bidx)
        infos == [i \in 1..Len(order) |->
                     extract_stream_info(order[i], strs[order[i] + 1])]
    IN  IF \E i \in 1..Len(order) : infos[i].raised
        THEN [raised |-> TRUE, rows |-> <<>>]
        ELSE [raised |-> FALSE, rows |-> [i \in 1..Len(order) |-> infos[i].row]]

-----------------------------------------------------------------------------
(* get_behavioral_data                                                     *)

\* A pandas DataFrame: the column labels in insertion order, one sequence of
\* cells per column, and the length of the index.
EmptyDF == [columns |-> <<>>, data |-> <<>>, nrows |-> 0]

\* DataFrame.empty: any axis of length zero.
DfEmpty(df) == Len(df.columns) = 0 \/ df.nrows = 0

C_time_series == K_time_series
C_time_stamp == <<"t","i","m","e","_","s","t","a","m","p">>
C_feature_(i) == <<"f","e","a","t","u","r","e","_">> \o DigitStr(i)

\* df[label] = cells, for a frame whose index is still empty or already has
\* Len(cells) entries.
AddColumn(df, label, cells) ==
    [columns |-> Append(df.columns, label),
     data |-> Append(df.data, cells),
     nrows |-> Len(cells)]

\* x[i] of one sample row (i 0-based): an element of a list, a wrapped
\* element of a 1-D array, a character of a text.
RowItem(x, i) ==
    CASE x.t = "list" -> x.v[i + 1]
      [] x.t = "ndarray" -> PNum(x.v[i + 1])
      [] OTHER -> PStr(<<x.v[i + 1]>>)

\* [x[i] if len(x) > i else '' for x in time_series]
ColumnOfRows(time_series, i) ==
    [r \in 1..Len(time_series.v) |->
        IF PyLen(time_series.v[r]) > i
        THEN RowItem(time_series.v[r], i)
        ELSE PStr(<<>>)]

\* The frame after the columns f(0) .. f(n_cols - 1) are added in order.
RECURSIVE AddFeatureColumns(_, _, _, _)
AddFeatureColumns(df, time_series, i, n_cols) ==
    IF i >= n_cols THEN df
    ELSE AddFeatureColumns(
             AddColumn(df, C_feature_(i),
                       IF time_series.t = "ndarray"
                       THEN [r \in 1..Len(time_series.v) |->
                                PNum(time_series.v[r][i + 1])]
                       ELSE ColumnOfRows(time_series, i)),
             time_series, i + 1, n_cols)

\* n_cols as it would be if taken from the longest row.
RaggedNColsLongest(time_series) ==
    LET lens == {PyLen(time_series.v[r]) : r \in 1..Len(time_series.v)}
        longest == CHOOSE n \in lens : \A k \in lens : k <= n
    IN  IF longest > 0 THEN longest ELSE 1

\* n_cols = len(time_series[0]) if len(time_series[0]) > 0 else 1
RaggedNCols(time_series) ==
    IF PyLen(time_series.v[1]) > 0 THEN PyLen(time_series.v[1]) ELSE 1

\* The value columns (lines 200-231).  Result: [raised, df].  In the list
\* of rows branch len(x) raises for a row that has no length, and x[i] for
\* a mapping.
ValueColumns(time_series) ==
    IF time_series.t = "ndarray"
    THEN IF Len(time_series.shape) > 1
         THEN LET n_cols == time_series.shape[2]
              IN  IF n_cols = 1
                  THEN [raised |-> FALSE,
                        df |-> AddColumn(EmptyDF, C_time_series,
                                 [r \in 1..Len(time_series.v) |->
                                     PNum(time_series.v[r][1])])]
                  ELSE [raised |-> FALSE,
                        df |-> AddFeatureColumns(EmptyDF, time_series, 0, n_cols)]
         ELSE [raised |-> FALSE,
               df |-> AddColumn(EmptyDF, C_time_series,
                        [r \in 1..Len(time_series.v) |-> PNum(time_series.v[r])])]
    ELSE IF time_series.t = "list" /\ Len(time_series.v) > 0
    THEN IF time_series.v[1].t \in {"list", "ndarray"}
         THEN IF \E r \in 1..Len(time_series.v) :
                     \/ ~HasLen(time_series.v[r])
                     \/ time_series.v[r].t = "dict" /\ PyLen(time_series.v[r]) > 0
              THEN [raised |-> TRUE, df |-> EmptyDF]
              ELSE LET n_cols == RaggedNCols(time_series)
                   IN  IF n_cols = 1
                       THEN [raised |-> FALSE,
                             df |-> AddColumn(EmptyDF, C_time_series,
                                              ColumnOfRows(time_series, 0))]
                       ELSE [raised |-> FALSE,
                             df |-> AddFeatureColumns(EmptyDF, time_series, 0, n_cols)]
         ELSE [raised |-> FALSE,
               df |-> AddColumn(EmptyDF, C_time_series, time_series.v)]
    ELSE [raised |-> FALSE, df |-> EmptyDF]

\* The timestamp cells as Python values.
TsCells(time_stamps) ==
    [r \in 1..Len(time_stamps.v) |->
        IF time_stamps.t = "ndarray" THEN PNum(time_stamps.v[r]) ELSE time_stamps.v[r]]

\* if len(time_stamps) > 0: df["time_stamp"] = time_stamps
\* len() raises for a value without length.  On a frame whose index is
\* empty, pandas takes the index from the new column and fills the columns
\* already there with NaN; on any other frame the lengths must agree
\* (ValueError otherwise).
NaN == [t |-> "nan"]

\* The step as it would be if the timestamps were never made a column.
AddTimeStampsDropped(df, time_stamps) ==
    IF ~(time_stamps.t \in {"list", "ndarray"}) THEN [raised |-> TRUE, df |-> EmptyDF]
    ELSE [raised |-> FALSE, df |-> df]

AddTimeStamps(df, time_stamps) ==
    IF ~(time_stamps.t \in {"list", "ndarray"}) THEN [raised |-> TRUE, df |-> EmptyDF]
    ELSE IF Len(time_stamps.v) = 0 THEN [raised |-> FALSE, df |-> df]
    ELSE IF df.nrows = 0
    THEN [raised |-> FALSE,
          df |-> [columns |-> Append(df.columns, C_time_stamp),
                  data |-> Append([c \in 1..Len(df.data) |->
                                      [r \in 1..Len(time_stamps.v) |-> NaN]],
                                  TsCells(time_stamps)),
                  nrows |-> Len(time_stamps.v)]]
    ELSE IF df.nrows # Len(time_stamps.v) THEN [raised |-> TRUE, df |-> EmptyDF]
    ELSE [raised |-> FALSE, df |-> AddColumn(df, C_time_stamp, TsCells(time_stamps))]

\* Result: [raised, df].
get_behavioral_data(strs, bidx) ==
    IF bidx = None THEN [raised |-> FALSE, df |-> EmptyDF]
    ELSE LET stream == strs[bidx + 1]
             time_series == DictGet(stream, K_time_series, PList(<<>>))
             time_stamps == DictGet(stream, K_time_stamps, PList(<<>>))
             vc == ValueColumns(time_series)
         IN  IF vc.raised THEN vc ELSE AddTimeStamps(vc.df, time_stamps)

-----------------------------------------------------------------------------
(* Paths and save_behavioral_data_csv                                      *)

S_html == <<".","h","t","m","l">>
S_behavioral_data_csv ==
    <<"_","b","e","h","a","v","i","o","r","a","l","_","d","a","t","a",
      ".","c","s","v">>

\* The components of a relative path, as pathlib splits it: separated by
\* "/", with empty components and "." dropped.
RECURSIVE PathParts(_)
PathParts(s) ==
    IF s = <<>> THEN <<>>
    ELSE LET slashes == {i \in 1..Len(s) : s[i] = "/"}
             cut == IF slashes = {} THEN Len(s) + 1
                    ELSE CHOOSE i \in slashes : \A j \in slashes : i <= j
             head == SubSeq(s, 1, cut - 1)
             rest == SubSeq(s, cut + 1, Len(s))
         IN  (IF head = <<>> \/ head = <<".">> THEN <<>> ELSE <<head>>)
             \o PathParts(rest)

\* Path(s).name: the last component ('' when there is none).
PathName(s) ==
    LET parts == PathParts(s)
    IN  IF parts = <<>> THEN <<>> ELSE parts[Len(parts)]

\* Path(s).stem: the name without its last suffix; a name whose only point
\* is its first or its last character has no suffix.
PathStem(s) ==
    LET name == PathName(s)
        points == {i \in 1..Len(name) : name[i] = "."}
    IN  IF points = {} THEN name
        ELSE LET i == CHOOSE p \in points : \A q \in points : q <= p
             IN  IF 1 < i /\ i < Len(name) THEN SubSeq(name, 1, i - 1) ELSE name

\* The directory a path's file lies in, as components.
PathDir(s) ==
    LET parts == PathParts(s)
    IN  IF parts = <<>> THEN <<>> ELSE SubSeq(parts, 1, Len(parts) - 1)

\* csv_file = f"{output_stem}_behavioral_data.csv"
CsvFileName(output_stem) == output_stem \o S_behavioral_data_csv

\* Result: [raised, value, writes]: value is the path written (text) or
\* PNone ("No behavioral data to save").
save_behavioral_data_csv(strs, bidx, output_stem) ==
    LET r == get_behavioral_data(strs, bidx)
    IN  IF r.raised THEN [raised |-> TRUE, value |-> PNone, writes |-> <<>>]
        ELSE IF DfEmpty(r.df)
        THEN [raised |-> FALSE, value |-> PNone, writes |-> <<>>]
        ELSE [raised |-> FALSE,
              value |-> PStr(CsvFileName(output_stem)),
              writes |-> <<[path |-> CsvFileName(output_stem), kind |-> "csv"]>>]

-----------------------------------------------------------------------------
(* _build_interactive_tree_html                                            *)

\* str.replace(old, new) for one-character old and new.
Replace1(s, old, new) == [i \in 1..Len(s) |-> IF s[i] = old THEN new ELSE s[i]]

\* str.replace(old, '') for a one-character old.
NotBracketOpen(c) == c # "["
NotBracketClose(c) == c # "]"

\* child_id = f"{node_id}_{name}".replace(' ', '_').replace('[', '').replace(']', '')
ChildId(node_id, name) ==
    SelectSeq(SelectSeq(Replace1(node_id \o <<"_">> \o name, " ", "_"),
                        NotBracketOpen),
              NotBracketClose)

priority_keys == <<K_info, K_time_series, K_time_stamps, K_footer>>

InSeq(x, seq) == \E i \in 1..Len(seq) : seq[i] = x

\* [k for k in keys if k not in excluded] and [k for k in keys if k in
\* allowed], the two filters of lines 303-304.
FilterNotIn(keys, excluded) == SelectSeq(keys, LAMBDA k : ~InSeq(k, excluded))
FilterIn(keys, allowed) == SelectSeq(keys, LAMBDA k : InSeq(k, allowed))

\* sorted_keys as it would be with the priority group taken in the
\* mapping's own order.
sorted_keys_encounter(obj) ==
    FilterIn(obj.k, priority_keys) \o FilterNotIn(obj.k, priority_keys)

\* sorted_keys = [k for k in priority_keys if k in obj.keys()] + other_keys
sorted_keys(obj) == FilterIn(priority_keys, obj.k) \o FilterNotIn(obj.k, priority_keys)

\* if level > max_depth: return ""
Pruned(level, max_depth) == level > max_depth

\* has_children as it would be with level <= max_depth for level < max_depth.
has_children_inclusive(obj, level, max_depth) ==
    IF obj.t = "dict" /\ level <= max_depth THEN Len(obj.k) > 0
    ELSE IF obj.t = "list" /\ level <= max_depth
         THEN Len(obj.v) > 0 /\ obj.v[1].t = "dict"
         ELSE FALSE

\* has_children (lines 285-289)
has_children(obj, level, max_depth) ==
    IF obj.t = "dict" /\ level < max_depth THEN Len(obj.k) > 0
    ELSE IF obj.t = "list" /\ level < max_depth
         THEN Len(obj.v) > 0 /\ obj.v[1].t = "dict"
         ELSE FALSE

\* One rendered node (a <div class="tree-node level-N">): its name, the
\* value it renders (the label shows that value's type, summary and size),
\* its level, its kind ("toggle" for a collapsible node, whose children
\* <div> carries id; "leaf" otherwise) and the node_id it was built under.
TreeNode(name, obj, level, kind, id, parent) ==
    [name |-> name, obj |-> obj, level |-> level, kind |-> kind,
     id |-> id, parent |-> parent]

S_idx0 == <<"[","0","]">>

\* The html as the sequence of its nodes in document order.
RECURSIVE build_interactive_tree_html(_, _, _, _, _)
RECURSIVE BuildChildren(_, _, _, _, _, _)
BuildChildren(obj, keys, i, level, max_depth, child_id) ==
    IF i > Len(keys) THEN <<>>
    ELSE build_interactive_tree_html(DictGet(obj, keys[i], PNone), keys[i],
                                     level + 1, max_depth, child_id)
         \o BuildChildren(obj, keys, i + 1, level, max_depth, child_id)

\* The walk as it would be without the two depth tests.
RECURSIVE build_tree_unbounded(_, _, _, _, _)
RECURSIVE BuildChildrenUnbounded(_, _, _, _, _, _)
BuildChildrenUnbounded(obj, keys, i, level, max_depth, child_id) ==
    IF i > Len(keys) THEN <<>>
    ELSE build_tree_unbounded(DictGet(obj, keys[i], PNone), keys[i],
                              level + 1, max_depth, child_id)
         \o BuildChildrenUnbounded(obj, keys, i + 1, level, max_depth, child_id)

build_tree_unbounded(obj, name, level, max_depth, node_id) ==
    IF has_children(obj, 0, 1)
    THEN LET child_id == ChildId(node_id, name)
         IN  <<TreeNode(name, obj, level, "toggle", child_id, node_id)>>
             \o (IF obj.t = "dict"
                 THEN BuildChildrenUnbounded(obj, sorted_keys(obj), 1, level,
                                             max_depth, child_id)
                 ELSE build_tree_unbounded(obj.v[1], S_idx0, level + 1,
                                           max_depth, child_id))
    ELSE <<TreeNode(name, obj, level, "leaf", <<>>, node_id)>>

build_interactive_tree_html(obj, name, level, max_depth, node_id) ==
    IF Pruned(level, max_depth) THEN <<>>
    ELSE IF has_children(obj, level, max_depth)
    THEN LET child_id == ChildId(node_id, name)
         IN  <<TreeNode(name, obj, level, "toggle", child_id, node_id)>>
             \o (IF obj.t = "dict"
                 THEN BuildChildren(obj, sorted_keys(obj), 1, level,
                                    max_depth, child_id)
                 ELSE IF obj.t = "list" /\ Len(obj.v) > 0 /\ obj.v[1].t = "dict"
                 THEN build_interactive_tree_html(obj.v[1], S_idx0, level + 1,
                                                  max_depth, child_id)
                 ELSE <<>>)
    ELSE <<TreeNode(name, obj, level, "leaf", <<>>, node_id)>>

-----------------------------------------------------------------------------
(* generate_interactive_html                                               *)

S_stream == <<"s","t","r","e","a","m">>
S_behavioral == <<"b","e","h","a","v","i","o","r","a","l">>

\* f"stream[{idx}]" and f"stream{idx}"
StreamLabel(idx) == S_stream \o <<"[">> \o DigitStr(idx) \o <<"]">>
StreamNodeId(idx) == S_stream \o DigitStr(idx)

NoDoc == [written |-> FALSE]

\* The streams whose trees follow the behavioral one (lines 597-599).
OtherIdxs(strs, bidx) == OthersFrom(Len(strs), bidx, 0)

\* The tree section: the behavioral stream's tree first, then the others in
\* list order.
TreeSection(strs, bidx, max_depth) ==
    (IF bidx # None
     THEN <<[idx |-> bidx, prioritized |-> TRUE,
             heading |-> StreamName(strs[bidx + 1]).name,
             nodes |-> build_interactive_tree_html(
                           strs[bidx + 1], StreamLabel(bidx), 0, max_depth,
                           S_behavioral)]>>
     ELSE <<>>)
    \o [i \in 1..Len(OtherIdxs(strs, bidx)) |->
           LET idx == OtherIdxs(strs, bidx)[i]
           IN  [idx |-> idx, prioritized |-> FALSE,
                heading |-> StreamName(strs[idx + 1]).name,
                nodes |-> build_interactive_tree_html(
                              strs[idx + 1], StreamLabel(idx), 0, max_depth,
                              StreamNodeId(idx))]]

\* if not behavioral_df.empty and self.behavioral_stream_name:   (line 540)
TableSectionShown(df, bname) == ~DfEmpty(df) /\ Truthy(bname)

\* The warning as it would be under a plain else.
WarningShownElse(df, bname, bidx) == ~TableSectionShown(df, bname)

\* elif self.behavioral_idx is None:                             (line 563)
WarningShown(df, bname, bidx) == ~TableSectionShown(df, bname) /\ bidx = None

\* output_stem = Path(output_file).stem                          (line 354)
OutputStem(output_file) == PathStem(output_file)

\* Result: [raised, summary, df, doc, writes].  summary is the value
\* assigned to self.stream_summary (PNone when the call raised before the
\* assignment).  A raise after the export was saved leaves the export
\* written and no document.
generate_interactive_html(strs, bidx, bname, max_depth, output_file, save_behavioral_csv) ==
    LET summary == generate_summary_table(strs, bidx)
        bd == get_behavioral_data(strs, bidx)
        do_csv == save_behavioral_csv /\ ~bd.raised /\ ~DfEmpty(bd.df)
        csv == IF do_csv
               THEN save_behavioral_data_csv(strs, bidx, OutputStem(output_file))
               ELSE [raised |-> FALSE, value |-> PNone, writes |-> <<>>]
        table == ~bd.raised /\ TableSectionShown(bd.df, bname)
    IN  IF summary.raised
        THEN [raised |-> TRUE, summary |-> PNone, df |-> EmptyDF,
              doc |-> NoDoc, writes |-> <<>>]
        ELSE IF bd.raised \/ csv.raised
        THEN [raised |-> TRUE, summary |-> PList(summary.rows), df |-> EmptyDF,
              doc |-> NoDoc, writes |-> <<>>]
        ELSE IF \/ table /\ ~InSeq(C_time_stamp, bd.df.columns)
                \/ \E i \in 1..Len(strs) : StreamName(strs[i]).raised
        \* behavioral_df['time_stamp'] raises KeyError; the name expression
        \* of the tree headings raises as in _find_behavioral_stream
        THEN [raised |-> TRUE, summary |-> PList(summary.rows), df |-> bd.df,
              doc |-> NoDoc, writes |-> csv.writes]
        ELSE [raised |-> FALSE, summary |-> PList(summary.rows), df |-> bd.df,
              doc |-> [written |-> TRUE,
                       path |-> output_file,
                       summary |-> summary.rows,
                       table |-> table,
                       title |-> IF table THEN bname ELSE PNone,
                       n_features |-> IF table THEN Len(bd.df.columns) - 1 ELSE 0,
                       rows |-> IF table THEN bd.df.nrows ELSE 0,
                       link |-> IF table /\ Truthy(csv.value)
                                THEN PStr(PathName(csv.value.v)) ELSE PNone,
                       warning |-> WarningShown(bd.df, bname, bidx),
                       trees |-> TreeSection(strs, bidx, max_depth)],
              writes |-> Append(csv.writes,
                                [path |-> output_file, kind |-> "html"])]

-----------------------------------------------------------------------------
(* Inputs: what pyxdf.load_xdf() and the caller can hand over.             *)

T(s) == PStr(s)
W(x) == PList(<<x>>)   \* pyxdf wraps every metadata field in a list

N_EEG == <<"E","E","G">>
N_Markers == <<"M","a","r","k","e","r","s">>
N_Gaze == <<"G","a","z","e">>
N_MyEVENTS == <<"M","y","E","V","E","N","T","S">>
N_stimlabels == <<"s","t","i","m","l","a","b","e","l","s">>
N_Aux == <<"A","u","x">>
N_Behavioral == <<"B","e","h","a","v","i","o","r","a","l">>
K_desc == <<"d","e","s","c">>
K_channels == <<"c","h","a","n","n","e","l","s">>
K_label == <<"l","a","b","e","l">>
K_clock == <<"c","l","o","c","k">>

\* A well-formed continuous stream with nested description metadata.
s_EEG ==
    PDict(<<K_footer, K_time_stamps, K_clock, K_info, K_time_series>>,
          <<PDict(<<K_clock, K_info>>, <<PNum(0), PList(<<>>)>>),
            PArr1(<<10, 20>>),
            PList(<<>>),
            PDict(<<K_desc, K_name, K_type, K_channel_count, K_nominal_srate>>,
                  <<W(PDict(<<K_channels>>,
                            <<W(PDict(<<K_label>>, <<W(T(<<"C","3">>))>>))>>)),
                    W(T(N_EEG)), W(T(N_EEG)), W(T(<<"2">>)),
                    W(T(<<"1","0","0",".","5">>))>>),
            PArr2(<<<<1, 2>>, <<3, 4>>>>, 2)>>)

\* A marker stream with ragged rows: first row 2 values, then 3, then 1.
s_Markers ==
    PDict(<<K_info, K_time_series, K_time_stamps>>,
          <<PDict(<<K_name, K_type, K_channel_count, K_nominal_srate>>,
                  <<W(T(N_Markers)), W(T(N_Markers)), W(T(<<"1">>)), W(T(<<"0">>))>>),
            PList(<<PList(<<T(<<"a">>), T(<<"b">>)>>),
                    PList(<<T(<<"c">>), T(<<"d">>), T(<<"e">>)>>),
                    PList(<<T(<<"f">>)>>)>>),
            PArr1(<<1, 2, 3>>)>>)

\* Unwrapped metadata, one-dimensional numeric samples; two metadata keys
\* that differ only in a space against an underscore, each a mapping.
K_eye_l == <<"e","y","e","_","l">>
K_eye_space_l == <<"e","y","e"," ","l">>
s_Gaze ==
    PDict(<<K_info, K_time_series, K_time_stamps>>,
          <<PDict(<<K_name, K_channel_count, K_eye_space_l, K_eye_l>>,
                  <<T(N_Gaze), PNum(2),
                    PDict(<<K_label>>, <<T(<<"x">>)>>),
                    PDict(<<K_label>>, <<T(<<"y">>)>>)>>),
            PArr1(<<5, 6>>),
            PArr1(<<1, 2>>)>>)

\* A flat list of text samples and no timestamps at all.
s_Events ==
    PDict(<<K_info, K_time_series>>,
          <<PDict(<<K_name>>, <<W(T(N_MyEVENTS))>>),
            PList(<<T(<<"x">>), T(<<"y">>)>>)>>)

\* A stream that recorded nothing; its type field is an empty wrapper.
s_Stim ==
    PDict(<<K_info, K_time_series, K_time_stamps>>,
          <<PDict(<<K_name, K_type, K_channel_count>>,
                  <<W(T(N_stimlabels)), PList(<<>>), W(T(<<"1">>))>>),
            PArr1(<<>>),
            PArr1(<<>>)>>)

\* A non-numeric channel count.
s_Aux ==
    PDict(<<K_info, K_time_series, K_time_stamps>>,
          <<PDict(<<K_name, K_channel_count>>,
                  <<W(T(N_Aux)), W(T(<<"a","b","c">>))>>),
            PArr1(<<7>>),
            PArr1(<<1>>)>>)

\* Rows whose first one is empty.
s_Beh ==
    PDict(<<K_info, K_time_series, K_time_stamps>>,
          <<PDict(<<K_name>>, <<W(T(N_Behavioral))>>),
            PList(<<PList(<<>>), PList(<<T(<<"x">>), T(<<"y">>)>>)>>),
            PArr1(<<1, 2>>)>>)

\* No info mapping at all.
s_NoInfo == PDict(<<K_time_series>>, <<PList(<<>>)>>)

\* A name field that is an empty list wrapper.
s_EmptyName ==
    PDict(<<K_info>>, <<PDict(<<K_name, K_nominal_srate>>, <<PList(<<>>), PList(<<>>)>>)>>)

\* A name field that is not text.
s_NoneName == PDict(<<K_info>>, <<PDict(<<K_name>>, <<W(PNone)>>)>>)

StreamPool == {s_EEG, s_Markers, s_Gaze, s_Events, s_Stim, s_Aux, s_Beh,
               s_NoInfo, s_EmptyName, s_NoneName}

StreamLists == UNION {[1..n -> StreamPool] : n \in 0..MaxStreams}

\* behavioral_stream_name as given by the caller (-b, default None).
Hints == {PNone, T(<<>>), T(N_Markers), T(<<"A">>), T(<<"z","z">>)}

\* -d/--max-depth: the default and the depths that cut the pool's nesting.
DefaultMaxDepth == 6
Depths == (0..MaxTreeDepth) \cup {DefaultMaxDepth}

\* -o/--output: the default stem, one with a directory, one with a point.
xdf_schematic == <<"x","d","f","_","s","c","h","e","m","a","t","i","c">>
Stems == {xdf_schematic, <<"o","u","t","/","r","u","n">>, <<"r",".","v","1">>}

\* output_file as the library's callers give it: the default of the
\* parameter, or a stem with the extension as main() builds it.
xdf_interactive_html ==
    <<"x","d","f","_","i","n","t","e","r","a","c","t","i","v","e">> \o S_html
OutputFiles == {xdf_interactive_html} \cup {st \o S_html : st \in Stems}

-----------------------------------------------------------------------------
(* The state machine.                                                      *)

NoRet == [op |-> "none", raised |-> FALSE]

\* The process after pyxdf.load_xdf(): the streams are loaded and no
\* generator exists yet.
Init ==
    /\ streams \in StreamLists
    /\ behavioral_idx = None
    /\ behavioral_stream_name = PNone
    /\ stream_summary = PNone
    /\ pc = "start"
    /\ ret = NoRet
    /\ writes = <<>>

\* XDFSchematicGenerator(streams, header, behavioral_stream_name=hint)
Construct(hint) ==
    /\ pc = "start"
    /\ \E r \in {find_behavioral_stream(streams, hint)} :
           /\ behavioral_idx' = r.idx
           /\ behavioral_stream_name' = r.name
           /\ pc' = IF r.raised THEN "raised" ELSE "ready"
           /\ ret' = [op |-> "init", raised |-> r.raised, hint |-> hint]
    /\ stream_summary' = PNone
    /\ writes' = <<>>
    /\ UNCHANGED streams

\* generate_summary_table as it would be if it moved the behavioral stream
\* to the front of self.streams instead of ordering the rows.
GenerateSummaryTableReordering ==
    /\ pc = "ready"
    /\ \E r \in {generate_summary_table(streams, behavioral_idx)} :
           /\ stream_summary' = IF r.raised THEN stream_summary ELSE PList(r.rows)
           /\ ret' = [op |-> "summary", raised |-> r.raised, rows |-> r.rows]
    /\ streams' = [i \in 1..Len(streams) |->
                      streams[SummaryOrder(Len(streams), behavioral_idx)[i] + 1]]
    /\ writes' = <<>>
    /\ pc' = "returned"
    /\ UNCHANGED <<behavioral_idx, behavioral_stream_name>>

\* summary_df = self.generate_summary_table()                 (lines 168-182)
GenerateSummaryTable ==
    /\ pc = "ready"
    /\ \E r \in {generate_summary_table(streams, behavioral_idx)} :
           /\ stream_summary' = IF r.raised THEN stream_summary ELSE PList(r.rows)
           /\ ret' = [op |-> "summary", raised |-> r.raised, rows |-> r.rows]
    /\ writes' = <<>>
    /\ pc' = "returned"
    /\ UNCHANGED <<streams, behavioral_idx, behavioral_stream_name>>

GetBehavioralData ==
    /\ pc = "ready"
    /\ \E r \in {get_behavioral_data(streams, behavioral_idx)} :
           ret' = [op |-> "data", raised |-> r.raised, df |-> r.df]
    /\ writes' = <<>>
    /\ pc' = "returned"
    /\ UNCHANGED <<streams, behavioral_idx, behavioral_stream_name,
                   stream_summary>>

SaveBehavioralDataCsv(output_stem) ==
    /\ pc = "ready"
    /\ \E r \in {save_behavioral_data_csv(streams, behavioral_idx, output_stem)} :
           /\ ret' = [op |-> "save", raised |-> r.raised, value |-> r.value,
                      output_stem |-> output_stem]
           /\ writes' = r.writes
    /\ pc' = "returned"
    /\ UNCHANGED <<streams, behavioral_idx, behavioral_stream_name,
                   stream_summary>>

GenerateInteractiveHtml(max_depth, output_file, save_behavioral_csv) ==
    /\ pc = "ready"
    /\ \E r \in {generate_interactive_html(streams, behavioral_idx,
                     behavioral_stream_name, max_depth, output_file,
                     save_behavioral_csv)} :
           /\ stream_summary' = IF r.summary = PNone THEN stream_summary
                                ELSE r.summary
           /\ ret' = [op |-> "html", raised |-> r.raised, df |-> r.df,
                      doc |-> r.doc, max_depth |-> max_depth,
                      output_file |-> output_file,
                      save_behavioral_csv |-> save_behavioral_csv]
           /\ writes' = r.writes
    /\ pc' = "returned"
    /\ UNCHANGED <<streams, behavioral_idx, behavioral_stream_name>>

\* The caller has taken the call's result (or caught its exception): the
\* generator is idle again.  Return values and the write log are per call.
Return ==
    /\ pc = "returned"
    /\ pc' = "ready"
    /\ ret' = NoRet
    /\ writes' = <<>>
    /\ UNCHANGED <<streams, behavioral_idx, behavioral_stream_name,
                   stream_summary>>

\* main(): the generator is constructed from the command line's hint and
\* generate_interactive_html is called once with f"{args.output}.html".
Main(hint, output, max_depth, no_csv) ==
    /\ pc = "start"
    /\ \E g \in {find_behavioral_stream(streams, hint)} :
           /\ behavioral_idx' = g.idx
           /\ behavioral_stream_name' = g.name
           /\ IF g.raised
              THEN /\ stream_summary' = PNone
                   /\ ret' = [op |-> "main", raised |-> TRUE, constructed |-> FALSE,
                              hint |-> hint, output |-> output]
                   /\ writes' = <<>>
                   /\ pc' = "raised"
              ELSE \E r \in {generate_interactive_html(streams, g.idx, g.name,
                                 max_depth, output \o S_html, ~no_csv)} :
                   /\ stream_summary' = r.summary
                   /\ ret' = [op |-> "main", raised |-> r.raised,
                              constructed |-> TRUE, hint |-> hint,
                              output |-> output, df |-> r.df, doc |-> r.doc,
                              max_depth |-> max_depth,
                              output_file |-> output \o S_html,
                              save_behavioral_csv |-> ~no_csv]
                   /\ writes' = r.writes
                   /\ pc' = IF r.raised THEN "raised" ELSE "exit"
    /\ UNCHANGED streams

Next ==
    \/ \E hint \in Hints : Construct(hint)
    \/ GenerateSummaryTable
    \/ GetBehavioralData
    \/ \E output_stem \in Stems : SaveBehavioralDataCsv(output_stem)
    \/ \E max_depth \in Depths, output_file \in OutputFiles,
          save_behavioral_csv \in BOOLEAN :
            GenerateInteractiveHtml(max_depth, output_file, save_behavioral_csv)
    \/ Return
    \/ \E hint \in Hints, output \in Stems, max_depth \in Depths,
          no_csv \in BOOLEAN :
            Main(hint, output, max_depth, no_csv)

Spec == Init /\ [][Next]_vars

-----------------------------------------------------------------------------
(* Properties.                                                             *)

\* The states right after a construction that completed, with its hint.
Constructed ==
    \/ ret.op = "init" /\ ~ret.raised
    \/ ret.op = "main" /\ ret.constructed

\* Two characters that are the same letter up to case.
SameLetter(a, b) ==
    \/ a = b
    \/ \E i \in 1..Len(UpperChars) :
          {a, b} = {UpperChars[i], LowerChars[i]}

\* sub occurs in s as a substring, ignoring case.
OccursIgnoringCase(sub, s) ==
    \E off \in 0..(Len(s) - Len(sub)) :
        \A j \in 1..Len(sub) : SameLetter(sub[j], s[off + j])

\* The display name of a stream: the text of info.name, list-wrapped or
\* not; '' when there is no info or no name.
HasDisplayName(stream) ==
    LET info == DictGet(stream, K_info, EmptyDict)
        nm == DictGet(info, K_name, PStr(<<>>))
    IN  \/ nm.t = "str"
        \/ nm.t = "list" /\ Len(nm.v) > 0 /\ nm.v[1].t = "str"
DisplayName(stream) ==
    LET info == DictGet(stream, K_info, EmptyDict)
        nm == DictGet(info, K_name, PStr(<<>>))
    IN  IF nm.t = "str" THEN nm.v ELSE nm.v[1].v

HintGiven(hint) == hint.t = "str" /\ hint.v # <<>>

\* Stream i (0-based) matches: its name contains the hint ignoring case,
\* or with no hint its lower-cased name contains a default keyword.
StreamMatches(hint, i) ==
    /\ HasDisplayName(streams[i + 1])
    /\ IF HintGiven(hint)
       THEN OccursIgnoringCase(hint.v, DisplayName(streams[i + 1]))
       ELSE \E j \in 1..Len(default_names) :
               OccursIgnoringCase(default_names[j], DisplayName(streams[i + 1]))

RowIndices(rows) == [i \in 1..Len(rows) |-> rows[i].index]

\* The order C2 claims: the selected index first, then every other index
\* ascending.
InClaimedOrder(idxs, n, bidx) ==
    /\ Len(idxs) = n
    /\ \A k \in 0..(n - 1) : Cardinality({i \in 1..n : idxs[i] = k}) = 1
    /\ bidx # None => idxs[1] = bidx
    /\ \A i, j \in 1..n :
          (i < j /\ (bidx = None \/ i > 1)) => idxs[i] < idxs[j]

C3_SummaryNeverRaises == ret.op = "summary" => ~ret.raised

\* C4: stream selection never raises, whatever the streams' name fields.
C4_SelectionNeverRaises == ret.op = "init" => ~ret.raised

-----------------------------------------------------------------------------
(* Properties of the tree builder.                                         *)

\* The documents: those a call of generate_interactive_html wrote.
DocWritten == ret.op \in {"html", "main"} /\ ~ret.raised

\* A value the tree builder can expand: a non-empty mapping, or a non-empty
\* sequence whose first element is a mapping.
Expandable(obj) ==
    \/ obj.t = "dict" /\ Len(obj.k) > 0
    \/ obj.t = "list" /\ Len(obj.v) > 0 /\ obj.v[1].t = "dict"

\* The number of values one expansion of obj renders: every key of a
\* mapping, the first element of a sequence.
ExpectedChildren(obj) == IF obj.t = "dict" THEN Len(obj.k) ELSE 1

\* The nodes rendered inside node p of a tree in document order, and among
\* them its direct children.
Descendants(nodes, p) ==
    {r \in (p + 1)..Len(nodes) :
        \A q \in (p + 1)..r : nodes[q].level > nodes[p].level}
DirectChildren(nodes, p) ==
    {r \in Descendants(nodes, p) : nodes[r].level = nodes[p].level + 1}

\* C5: in every tree of a document built with max_depth = d from level 0,
\* no node has a depth greater than d (nothing deeper is rendered), and the
\* root is at level 0.
C5_DepthBounded ==
    DocWritten =>
        \A t \in 1..Len(ret.doc.trees) :
            LET nodes == ret.doc.trees[t].nodes
            IN  /\ \A p \in 1..Len(nodes) :
                      nodes[p].level >= 0 /\ nodes[p].level <= ret.max_depth
                /\ nodes # <<>> /\ nodes[1].level = 0

\* A document of max_depth 1 for a stream nested deeper than that, with
\* nodes rendered at depth 1.
C5_Witness ==
    /\ DocWritten
    /\ ret.max_depth = 1
    /\ \E t \in 1..Len(ret.doc.trees) :
          /\ streams[ret.doc.trees[t].idx + 1] = s_EEG
          /\ \E p \in 1..Len(ret.doc.trees[t].nodes) :
                /\ ret.doc.trees[t].nodes[p].level = 1
                /\ Expandable(ret.doc.trees[t].nodes[p].obj)

\* C6 as stated: no rendered node is an expandable value located at depth
\* d (such a node is omitted entirely), so every node is strictly
\* shallower than the bound.
C6_OmittedAtBound ==
    DocWritten =>
        \A t \in 1..Len(ret.doc.trees) :
            \A p \in 1..Len(ret.doc.trees[t].nodes) :
                LET n == ret.doc.trees[t].nodes[p]
                IN  ~(n.level = ret.max_depth /\ Expandable(n.obj))

\* C6 amended: every value at a depth up to d is rendered; an expandable
\* value above depth d is a collapsible node with all its children, and a
\* value at depth d is a childless leaf even when it is expandable: only
\* what lies deeper than d is omitted.
C6_StubAtBound ==
    DocWritten =>
        \A t \in 1..Len(ret.doc.trees) :
            LET nodes == ret.doc.trees[t].nodes
            IN  \A p \in 1..Len(nodes) :
                    /\ nodes[p].level <= ret.max_depth
                    /\ IF Expandable(nodes[p].obj) /\ nodes[p].level < ret.max_depth
                       THEN /\ nodes[p].kind = "toggle"
                            /\ Cardinality(DirectChildren(nodes, p))
                                   = ExpectedChildren(nodes[p].obj)
                       ELSE /\ nodes[p].kind = "leaf"
                            /\ Descendants(nodes, p) = {}

\* A non-empty mapping at the bound, rendered as a childless leaf.
C6_Witness ==
    /\ DocWritten
    /\ ret.max_depth = 1
    /\ \E t \in 1..Len(ret.doc.trees) :
          \E p \in 1..Len(ret.doc.trees[t].nodes) :
              LET n == ret.doc.trees[t].nodes[p]
              IN  /\ n.level = 1 /\ n.obj.t = "dict" /\ Len(n.obj.k) > 0
                  /\ n.kind = "leaf"
                  /\ Descendants(ret.doc.trees[t].nodes, p) = {}

-----------------------------------------------------------------------------
(* Properties of the behavioral table.                                     *)

\* A call of get_behavioral_data that returned the table of a selected
\* stream, and that stream's samples and timestamps.
DataReturned == ret.op = "data" /\ ~ret.raised /\ behavioral_idx # None
SelTimeSeries == DictGet(streams[behavioral_idx + 1], K_time_series, PList(<<>>))
SelTimeStamps == DictGet(streams[behavioral_idx + 1], K_time_stamps, PList(<<>>))

\* time_series is a non-empty sequence of per-sample sequences.
IsRowList(ts) ==
    /\ ts.t = "list" /\ Len(ts.v) > 0
    /\ \A r \in 1..Len(ts.v) : ts.v[r].t = "list"

\* The value columns of a table: all but the time_stamp column.
ValueColumnIdxs(df) == {c \in 1..Len(df.columns) : df.columns[c] # C_time_stamp}

\* Column c (1-based, a value column) holds every row's value at that
\* index, or the empty placeholder where the row is shorter.
ColumnHoldsIndex(df, ts, c) ==
    /\ Len(df.data[c]) = Len(ts.v)
    /\ \A r \in 1..Len(ts.v) :
          df.data[c][r] = IF Len(ts.v[r].v) >= c THEN ts.v[r].v[c] ELSE PStr(<<>>)

\* C7 as stated: the number of value columns is the length of the first
\* row.
C7_ColumnsAreFirstRowLength ==
    (DataReturned /\ IsRowList(SelTimeSeries)) =>
        /\ Cardinality(ValueColumnIdxs(ret.df)) = Len(SelTimeSeries.v[1].v)
        /\ \A c \in ValueColumnIdxs(ret.df) :
              ColumnHoldsIndex(ret.df, SelTimeSeries, c)

\* C7 amended: the number of value columns is the length of the first row,
\* or one when the first row is empty; the value columns come first, each
\* holding every row's value at its index or the empty placeholder, so
\* values beyond the first row's length appear nowhere.
C7_ColumnsFromFirstRow ==
    (DataReturned /\ IsRowList(SelTimeSeries)) =>
        LET first == Len(SelTimeSeries.v[1].v)
            n == IF first = 0 THEN 1 ELSE first
        IN  /\ ValueColumnIdxs(ret.df) = 1..n
            /\ \A c \in 1..n : ColumnHoldsIndex(ret.df, SelTimeSeries, c)
            /\ ret.df.nrows = Len(SelTimeSeries.v)

\* A first row of length 2 and a later row of length 3: two value columns.
C7_Witness ==
    /\ DataReturned /\ IsRowList(SelTimeSeries)
    /\ Len(SelTimeSeries.v[1].v) = 2
    /\ \E r \in 1..Len(SelTimeSeries.v) : Len(SelTimeSeries.v[r].v) = 3
    /\ \E r \in 1..Len(SelTimeSeries.v) : Len(SelTimeSeries.v[r].v) = 1
    /\ Cardinality(ValueColumnIdxs(ret.df)) = 2

\* time_series is a one-dimensional numeric array of length N and there
\* are N timestamps.
IsAligned1D(ts, stamps) ==
    /\ ts.t = "ndarray" /\ Len(ts.shape) = 1
    /\ stamps.t = "ndarray" /\ Len(stamps.shape) = 1
    /\ Len(stamps.v) = Len(ts.v)

\* C8 as stated: for every N the table has N rows and two columns.
C8_TwoColumnsForEveryN ==
    (DataReturned /\ IsAligned1D(SelTimeSeries, SelTimeStamps)) =>
        /\ ret.df.nrows = Len(SelTimeSeries.v)
        /\ Len(ret.df.columns) = 2

\* C8 amended: for every N >= 1 the table has N rows and exactly the two
\* columns time_series and time_stamp, holding the samples and the
\* timestamps by position; for N = 0 it has no row and the value column
\* only.
C8_TwoColumnsForPositiveN ==
    (DataReturned /\ IsAligned1D(SelTimeSeries, SelTimeStamps)) =>
        LET N == Len(SelTimeSeries.v)
        IN  /\ ret.df.nrows = N
            /\ N >= 1 =>
                  /\ ret.df.columns = <<C_time_series, C_time_stamp>>
                  /\ ret.df.data[1] = [r \in 1..N |-> PNum(SelTimeSeries.v[r])]
                  /\ ret.df.data[2] = [r \in 1..N |-> PNum(SelTimeStamps.v[r])]
            /\ N = 0 => ret.df.columns = <<C_time_series>>

\* A one-dimensional array of two samples flattened to two rows.
C8_Witness ==
    /\ DataReturned /\ IsAligned1D(SelTimeSeries, SelTimeStamps)
    /\ Len(SelTimeSeries.v) = 2
    /\ ret.df.nrows = 2
    /\ Len(ret.df.columns) = 2

-----------------------------------------------------------------------------
(* Properties of the document and of the files.                            *)

\* C9 as stated: the table section is present exactly when a stream was
\* selected and its table is non-empty, and every other document has the
\* warning panel.
C9_TableOrWarning ==
    DocWritten =>
        /\ ret.doc.table <=> (behavioral_idx # None /\ ~DfEmpty(ret.df))
        /\ ~ret.doc.table => ret.doc.warning

\* C9 amended: the table section is present exactly when a stream was
\* selected and its table is non-empty; the warning panel is present
\* exactly when no stream was selected; a document for a selected stream
\* whose table is empty has neither.
C9_TableXorWarningOrNeither ==
    DocWritten =>
        /\ ret.doc.table <=> (behavioral_idx # None /\ ~DfEmpty(ret.df))
        /\ ret.doc.warning <=> behavioral_idx = None
        /\ ~(ret.doc.table /\ ret.doc.warning)

\* A document for a selected stream whose table is empty: neither section.
C9_Witness ==
    /\ DocWritten
    /\ behavioral_idx # None
    /\ DfEmpty(ret.df)
    /\ ~ret.doc.table /\ ~ret.doc.warning

\* The files of kind k the last call wrote.
Written(k) == {i \in 1..Len(writes) : writes[i].kind = k}

\* C10: a run of main with output stem s writes the document at s.html
\* and the export, when written, at s_behavioral_data.csv, and the
\* document's link, resolved against the document's directory, is the
\* export that was written.
C10_ExportBesideDocument ==
    (ret.op = "main" /\ ~ret.raised) =>
        /\ \A i \in Written("html") : writes[i].path = ret.output \o S_html
        /\ \A i \in Written("csv") :
              /\ writes[i].path = ret.output \o S_behavioral_data_csv
              /\ ret.doc.link # PNone
              /\ PathDir(ret.doc.path) \o <<ret.doc.link.v>>
                     = PathParts(writes[i].path)

\* One invocation of report generation: a call of generate_interactive_html,
\* directly or from main.
ReportRun == ret.op \in {"html", "main"}

\* No stream's name contains a default keyword (every stream has a name
\* that is text).
NoKeywordName ==
    \A i \in 0..(Len(streams) - 1) :
        HasDisplayName(streams[i + 1]) /\ ~StreamMatches(PNone, i)

\* The write accounting of one invocation: the export at most once, the
\* document at most once, and the export only when export is enabled and a
\* stream was selected whose table is non-empty.
WritesAtMostOnce ==
    ReportRun =>
        /\ Cardinality(Written("csv")) <= 1
        /\ Cardinality(Written("html")) <= 1
        /\ Len(writes) = Cardinality(Written("csv")) + Cardinality(Written("html"))
        /\ Written("csv") # {} =>
              /\ ret.save_behavioral_csv
              /\ behavioral_idx # None
              /\ ~DfEmpty(ret.df)

\* An invocation that wrote both files, once each.
WritesAtMostOnceReached ==
    /\ ReportRun
    /\ Cardinality(Written("csv")) = 1
    /\ Cardinality(Written("html")) = 1

\* C11: one invocation writes the export at most once and the document at
\* most once, the export only when export is enabled and a stream with a
\* non-empty table was selected; and a run of main with no hint over
\* streams none of whose names contains a default keyword completes, with
\* the warning panel in the document and no export written.
C11_NoMatchRunCompletes ==
    /\ WritesAtMostOnce
    /\ (ret.op = "main" /\ ret.hint = PNone /\ NoKeywordName) =>
          /\ ~ret.raised
          /\ ret.doc.warning
          /\ Written("html") # {}
          /\ Written("csv") = {}

\* The part of C11 about the runs that do complete.
NoMatchRunWarns ==
    (ret.op = "main" /\ ret.hint = PNone /\ NoKeywordName /\ ~ret.raised) =>
        /\ behavioral_idx = None
        /\ ret.doc.warning
        /\ Cardinality(Written("html")) = 1
        /\ Written("csv") = {}

-----------------------------------------------------------------------------
(* Properties of the generator's fields.                                   *)

\* The generator exists and is idle or has just returned from an operation.
GeneratorConstructed == pc \in {"ready", "returned"}

\* C12: once the generator is constructed, no step of its public
\* operations changes the selection index, the resolved behavioral stream
\* name or the stream list; and in every reachable state the selection
\* index is null or a valid position in the stream list.
C12_SelectionFrozen ==
    /\ [](behavioral_idx = None \/ behavioral_idx \in 0..(Len(streams) - 1))
    /\ [][GeneratorConstructed =>
             /\ behavioral_idx' = behavioral_idx
             /\ behavioral_stream_name' = behavioral_stream_name
             /\ streams' = streams]_vars

\* An export call returning after a summary table was built on the same
\* generator, the second of two streams still being the selected one.
C12_Witness ==
    /\ pc = "returned" /\ ret.op = "save" /\ ~ret.raised
    /\ stream_summary # PNone
    /\ Len(streams) = 2
    /\ behavioral_idx = 1
    /\ behavioral_stream_name = PStr(DisplayName(streams[2]))

-----------------------------------------------------------------------------
(* Properties of the order and of the ids of tree nodes.                   *)

\* The direct children of node p in document order, and their names.
ChildSeq(nodes, p) ==
    SelectSeq([i \in 1..(Len(nodes) - p) |-> p + i],
              LAMBDA r : /\ nodes[r].level = nodes[p].level + 1
                         /\ \A q \in (p + 1)..r : nodes[q].level > nodes[p].level)
ChildNames(nodes, p) ==
    [i \in 1..Len(ChildSeq(nodes, p)) |-> nodes[ChildSeq(nodes, p)[i]].name]

\* The position of x in a sequence that holds it.
PosIn(seq, x) == CHOOSE i \in 1..Len(seq) : seq[i] = x

\* The fixed priority group of C13.
PriorityGroup == <<K_info, K_time_series, K_time_stamps, K_footer>>

\* a is rendered before b: both in the priority group and a earlier in it,
\* or a in the group and b not, or neither in it and a met earlier in the
\* mapping.
RenderedBefore(a, b, keys) ==
    IF InSeq(a, PriorityGroup)
    THEN InSeq(b, PriorityGroup) => PosIn(PriorityGroup, a) < PosIn(PriorityGroup, b)
    ELSE ~InSeq(b, PriorityGroup) /\ PosIn(keys, a) < PosIn(keys, b)

\* C13: the children rendered for an expanded mapping are its keys, each
\* exactly once and each with its own value: first those of info,
\* time_series, time_stamps, footer that are present, in that order, then
\* the remaining keys in their encounter order.
C13_ChildrenOrder ==
    DocWritten =>
        \A t \in 1..Len(ret.doc.trees) :
            LET nodes == ret.doc.trees[t].nodes
            IN  \A p \in 1..Len(nodes) :
                    (nodes[p].kind = "toggle" /\ nodes[p].obj.t = "dict") =>
                        \A cs \in {ChildSeq(nodes, p)} :
                            LET keys == nodes[p].obj.k
                            IN  /\ Len(cs) = Len(keys)
                                /\ \A k \in 1..Len(keys) :
                                      Cardinality({i \in 1..Len(cs) :
                                          nodes[cs[i]].name = keys[k]}) = 1
                                /\ \A i, j \in 1..Len(cs) :
                                      i < j => RenderedBefore(nodes[cs[i]].name,
                                                              nodes[cs[j]].name, keys)
                                /\ \A i \in 1..Len(cs) :
                                      nodes[cs[i]].obj
                                          = DictGet(nodes[p].obj,
                                                    nodes[cs[i]].name, PNone)

\* A stream whose mapping meets footer, time_stamps, clock, info,
\* time_series in that order, rendered as info, time_series, time_stamps,
\* footer, clock; and its info mapping, none of whose keys is in the
\* priority group, rendered in encounter order.
C13_Witness ==
    /\ DocWritten
    /\ \E t \in 1..Len(ret.doc.trees) :
          LET nodes == ret.doc.trees[t].nodes
          IN  /\ nodes[1].obj.k = <<K_footer, K_time_stamps, K_clock, K_info,
                                     K_time_series>>
              /\ ChildNames(nodes, 1) = <<K_info, K_time_series, K_time_stamps,
                                          K_footer, K_clock>>
              /\ \E p \in 2..Len(nodes) :
                    /\ nodes[p].name = K_info /\ nodes[p].kind = "toggle"
                    /\ ChildNames(nodes, p) = <<K_desc, K_name, K_type,
                                                K_channel_count, K_nominal_srate>>

\* The expandable nodes of a document: tree t, position p.
ToggleNodes(doc) ==
    {tp \in UNION {{<<t, p>> : p \in 1..Len(doc.trees[t].nodes)} :
                      t \in 1..Len(doc.trees)} :
        doc.trees[tp[1]].nodes[tp[2]].kind = "toggle"}

\* C14: within one written document no two expandable nodes carry the same
\* element id, so each toggle addresses its own children.
C14_ToggleIdsDistinct ==
    DocWritten =>
        \A a, b \in ToggleNodes(ret.doc) :
            a # b => ret.doc.trees[a[1]].nodes[a[2]].id
                         # ret.doc.trees[b[1]].nodes[b[2]].id

====
